---------------------------- MODULE Spec2Model ----------------------------
(***************************************************************************)
(* Weather Dashboard: the browser-side WeatherDashboard class              *)
(* (src/script.js) and the Express proxy (src/server.js).                  *)
(*                                                                         *)
(* City names are sequences of one-character strings, so that              *)
(* String.prototype.toLowerCase can be modelled character by character.    *)
(***************************************************************************)
EXTENDS Integers, Sequences, FiniteSets, TLC

VARIABLES
    searchHistory,  \* this.searchHistory             (script.js:5)
    stored,         \* localStorage['weatherSearchHistory'], NullText when unset
    lastAdd,        \* the argument of the last addToSearchHistory call
    typed,          \* history driver: how many itinerary cities were typed
    repeats,        \* history driver: how many re-typed cities so far
    samples,        \* reducer driver: data.list of one /api/forecast response
    daily,          \* reducer driver: result of processForecastData, or NullText
    hourly,         \* reducer driver: result of processHourlyData, or NullText
    now,            \* the clock, new Date().getTime(), in ms
    tz,             \* the browser's offset from UTC, in ms
    hasApiKey,      \* server: !!process.env.OPENWEATHER_API_KEY
    health,         \* checkServerHealth: "pending", then "live" or "demo"
    searches,       \* the searchWeather calls, in the order they were issued
    display,        \* the page: the content of each container
    currentCity,    \* this.currentCity
    apiKey,         \* this.apiKey ("" for null)
    exchange,       \* server: the request served last and its response
    tile            \* tile driver: the arguments and result of getTileX/getTileY

histVars == <<searchHistory, stored, lastAdd, typed, repeats>>
redVars == <<samples, daily, hourly, now, tz>>
dashVars == <<hasApiKey, health, searches, display, currentCity, apiKey>>
srvVars == <<exchange>>
mapVars == <<tile>>
vars == <<histVars, redVars, dashVars, srvVars, mapVars>>

\* null where an object is expected (comparable with every record), and
\* null where a text or an array is expected (comparable with every
\* sequence of records)
Null == [null |-> TRUE]
NullText == <<Null>>

\* the empty string
EmptyString == <<>>

----------------------------------------------------------------------------
(* Strings                                                                 *)

UpperLetters == <<"A","B","C","D","E","F","G","H","I","J","K","L","M",
                  "N","O","P","Q","R","S","T","U","V","W","X","Y","Z">>
LowerLetters == <<"a","b","c","d","e","f","g","h","i","j","k","l","m",
                  "n","o","p","q","r","s","t","u","v","w","x","y","z">>

\* The case tables, computed once.
LowerTable ==
    [c \in {UpperLetters[i] : i \in DOMAIN UpperLetters} |->
        LowerLetters[CHOOSE i \in DOMAIN UpperLetters : UpperLetters[i] = c]]
UpperTable ==
    [c \in {LowerLetters[i] : i \in DOMAIN LowerLetters} |->
        UpperLetters[CHOOSE i \in DOMAIN LowerLetters : LowerLetters[i] = c]]

\* toLowerCase on one character: upper-case letters map to their lower-case
\* letter, every other character is unchanged.
LowerChar(c) == IF c \in DOMAIN LowerTable THEN LowerTable[c] ELSE c

UpperChar(c) == IF c \in DOMAIN UpperTable THEN UpperTable[c] ELSE c

\* String.prototype.toLowerCase
toLowerCase(s) == [i \in DOMAIN s |-> LowerChar(s[i])]

\* Spellings a user may type for a lower-case name: as is, or Capitalised.
Capitalised(s) == [i \in DOMAIN s |-> IF i = 1 THEN UpperChar(s[i]) ELSE s[i]]
Spellings(s) == {s, Capitalised(s)}

----------------------------------------------------------------------------
(* Array helpers                                                           *)

\* Array.prototype.slice(0, n)
Slice0(s, n) == SubSeq(s, 1, IF Len(s) < n THEN Len(s) ELSE n)

----------------------------------------------------------------------------
(* localStorage value of the history: JSON text as a token sequence        *)

JsonOpen == [tok |-> "["]
JsonClose == [tok |-> "]"]
JsonComma == [tok |-> ","]
JsonString(s) == [str |-> s]

RECURSIVE JsonItems(_)
JsonItems(s) ==
    IF s = <<>> THEN <<>>
    ELSE IF Len(s) = 1 THEN <<JsonString(s[1])>>
    ELSE <<JsonString(s[1]), JsonComma>> \o JsonItems(Tail(s))

\* JSON.stringify of an array of strings
JsonStringify(s) == <<JsonOpen>> \o JsonItems(s) \o <<JsonClose>>

\* JSON.parse of such a text
RECURSIVE JsonParseItems(_)
JsonParseItems(t) ==
    IF t = <<>> THEN <<>>
    ELSE IF "str" \in DOMAIN Head(t)
         THEN <<Head(t).str>> \o JsonParseItems(Tail(t))
         ELSE JsonParseItems(Tail(t))

JsonParse(t) == JsonParseItems(t)

----------------------------------------------------------------------------
(* Search history                                 script.js:524-543        *)

HistoryCap == 10

addToSearchHistoryNoDedup(history, city) ==
    Slice0(<<city>> \o history, HistoryCap)

addToSearchHistoryNoCap(history, city) ==
    LET keep(item) == toLowerCase(item) # toLowerCase(city)
    IN  <<city>> \o SelectSeq(history, keep)

addToSearchHistoryAppend(history, city) ==
    LET keep(item) == toLowerCase(item) # toLowerCase(city)
        added == SelectSeq(history, keep) \o <<city>>
    IN  IF Len(added) > HistoryCap THEN Slice0(added, HistoryCap) ELSE added

\* The new value of this.searchHistory (SelectSeq is Array.filter): filter out the entries equal to
\* city up to case, unshift city, keep the first 10.
addToSearchHistory(history, city) ==
    LET keep(item) == toLowerCase(item) # toLowerCase(city)
        added == <<city>> \o SelectSeq(history, keep)
    IN  IF Len(added) > HistoryCap THEN Slice0(added, HistoryCap) ELSE added

\* The constructor's load: JSON.parse(localStorage.getItem(...)) || []
\* (getItem gives null when the key is unset, and JSON.parse(null) is null)
LoadHistory(value) == IF value = NullText THEN <<>> ELSE JsonParse(value)

----------------------------------------------------------------------------
(* History driver: a user types the cities of an itinerary in order, and    *)
(* now and then re-types, in any spelling, a city of the current history.   *)

MaxCities == 11
MaxRepeats == 2

\* The i-th itinerary city, lower case: "ax", "bx", ...
Itinerary(i) == <<LowerLetters[i], "x">>

DashIdle ==
    /\ hasApiKey = TRUE
    /\ health = "live"
    /\ searches = <<>>
    /\ display = [kind |-> "initial"]
    /\ currentCity = EmptyString
    /\ apiKey = ""
    /\ exchange = Null
    /\ tile = Null

RedIdle ==
    /\ samples = <<>>
    /\ daily = NullText
    /\ hourly = NullText
    /\ now = 0
    /\ tz = 0

HistInit ==
    /\ searchHistory = <<>>
    /\ stored = NullText
    /\ lastAdd = EmptyString
    /\ typed = 0
    /\ repeats = 0
    /\ RedIdle
    /\ DashIdle

\* addToSearchHistory(city) that saves the list before it updates it
HistApplySavingFirst(city) ==
    /\ searchHistory' = addToSearchHistory(searchHistory, city)
    /\ stored' = JsonStringify(searchHistory)
    /\ lastAdd' = city

\* addToSearchHistory(city) as a step: the field, then localStorage.setItem
HistApply(city) ==
    /\ searchHistory' = addToSearchHistory(searchHistory, city)
    /\ stored' = JsonStringify(searchHistory')
    /\ lastAdd' = city

AddNew ==
    /\ typed < MaxCities
    /\ typed' = typed + 1
    /\ HistApply(Itinerary(typed + 1))
    /\ UNCHANGED <<repeats, redVars, dashVars, srvVars, mapVars>>

AddAgain ==
    /\ repeats < MaxRepeats
    /\ \E i \in DOMAIN searchHistory :
         \E city \in Spellings(toLowerCase(searchHistory[i])) :
            HistApply(city)
    /\ repeats' = repeats + 1
    /\ UNCHANGED <<typed, redVars, dashVars, srvVars, mapVars>>

HistNext == AddNew \/ AddAgain

SpecHistory == HistInit /\ [][HistNext]_vars

----------------------------------------------------------------------------
(* Forecast reducer                               script.js:187-233        *)

MsPerSecond == 1000
MsPerDay == 24 * 60 * 60 * 1000
DailyCap == 5
HourlyCap == 24

\* new Date(item.dt * 1000), as epoch milliseconds
DateOf(item) == item.dt * MsPerSecond

\* Date.prototype.toDateString: the local calendar day of an instant, as
\* the number of the day (days since the epoch, local time zone zone)
toDateString(date, zone) == (date + zone) \div MsPerDay

\* Math.round on a value given in tenths (rounds half up, towards +infinity)
RoundTenths(x) == (x + 5) \div 10

\* Math.round(speed * 3.6) on a speed given in tenths of m/s
RoundKmh(speed) == (speed * 36 + 50) \div 100

\* the object pushed at script.js:198-205
DailyEntry(item) ==
    [date |-> DateOf(item),
     temp |-> RoundTenths(item.temp),
     description |-> item.description,
     humidity |-> item.humidity,
     windSpeed |-> RoundKmh(item.wind),
     icon |-> item.icon]

\* The forEach of processForecastData over list[from..]: acc is
\* <<dailyForecasts, processedDays>>.
RECURSIVE DailyLoopNoSet(_, _, _)
DailyLoopNoSet(list, zone, acc) ==
    IF list = <<>> THEN acc
    ELSE DailyLoopNoSet(Tail(list), zone,
            IF Len(acc[1]) > 0
               /\ toDateString(acc[1][Len(acc[1])].date, zone)
                     = toDateString(DateOf(Head(list)), zone)
            THEN acc
            ELSE <<Append(acc[1], DailyEntry(Head(list))), acc[2]>>)

RECURSIVE DailyLoop(_, _, _)
DailyLoop(list, zone, acc) ==
    IF list = <<>> THEN acc
    ELSE LET dayKey == toDateString(DateOf(Head(list)), zone)
         IN  DailyLoop(Tail(list), zone,
                IF dayKey \notin acc[2]
                THEN <<Append(acc[1], DailyEntry(Head(list))),
                       acc[2] \cup {dayKey}>>
                ELSE acc)

processForecastDataNoSlice(list, zone) == DailyLoop(list, zone, <<<<>>, {}>>)[1]

\* a noon-preferring reduction: the entry of a day is built from the day's
\* noon sample when the list has one
IsNoon(item, zone) == (DateOf(item) + zone) % MsPerDay = 12 * 60 * 60 * 1000

processForecastDataNoon(list, zone) ==
    LET firsts == Slice0(DailyLoop(list, zone, <<<<>>, {}>>)[1], DailyCap)
        noons(e) == {i \in DOMAIN list :
                        /\ IsNoon(list[i], zone)
                        /\ toDateString(DateOf(list[i]), zone)
                              = toDateString(e.date, zone)}
    IN  [k \in DOMAIN firsts |->
            IF noons(firsts[k]) = {} THEN firsts[k]
            ELSE DailyEntry(list[CHOOSE i \in noons(firsts[k]) : TRUE])]

\* processForecastData(data), data.list = list
processForecastData(list, zone) ==
    Slice0(DailyLoop(list, zone, <<<<>>, {}>>)[1], DailyCap)

\* getWeatherIcon: the iconMap, '🌤️' for every other category
getWeatherIcon(weatherMain) ==
    CASE weatherMain = "Clear" -> "sun"
      [] weatherMain = "Clouds" -> "cloud"
      [] weatherMain = "Rain" -> "rain cloud"
      [] weatherMain = "Snow" -> "snowflake"
      [] weatherMain = "Thunderstorm" -> "thunder cloud"
      [] weatherMain = "Drizzle" -> "sun behind rain cloud"
      [] weatherMain \in {"Mist", "Fog", "Haze", "Smoke", "Dust", "Sand", "Ash"}
            -> "fog"
      [] weatherMain = "Squall" -> "wind"
      [] weatherMain = "Tornado" -> "tornado"
      [] OTHER -> "sun behind small cloud"

\* the object pushed at script.js:221-228
HourlyEntry(item) ==
    [time |-> DateOf(item),
     temp |-> RoundTenths(item.temp),
     description |-> item.description,
     icon |-> getWeatherIcon(item.main),
     humidity |-> item.humidity,
     windSpeed |-> RoundKmh(item.wind)]

InNext24HoursFromNow(item, clock) ==
    DateOf(item) >= clock /\ DateOf(item) <= clock + MsPerDay

\* the condition at script.js:220
InNext24Hours(item, clock) ==
    DateOf(item) > clock /\ DateOf(item) <= clock + MsPerDay

\* a reduction that keeps the last 24 qualifying samples
processHourlyDataLatest(list, clock) ==
    LET keep(item) == InNext24Hours(item, clock)
        kept == SelectSeq(list, keep)
        from == IF Len(kept) > HourlyCap THEN Len(kept) - HourlyCap ELSE 0
    IN  [i \in 1 .. Len(kept) - from |-> HourlyEntry(kept[from + i])]

\* processHourlyData(data), data.list = list, new Date() = clock
processHourlyData(list, clock) ==
    LET keep(item) == InNext24Hours(item, clock)
        kept == SelectSeq(list, keep)
    IN  Slice0([i \in DOMAIN kept |-> HourlyEntry(kept[i])], HourlyCap)

----------------------------------------------------------------------------
(* Reducer driver: one upstream forecast response, then the reductions      *)

MaxSamples == 7
MaxShuffled == 3
SampleTimes == 8

\* The hour (UTC, since the epoch) of the k-th instant the upstream has a
\* sample for (k = 0, 1, ...): midnight and noon of the first two days, then
\* every midnight.
HourOf(k) == IF k < 4 THEN 12 * k ELSE 24 * (k - 2)

\* The upstream forecast for the k-th instant: the weather is a fixed
\* function of the instant.
SampleAt(k) ==
    [dt |-> HourOf(k) * 3600,
     temp |-> ((k * 37) % 40) * 10 - 95,
     humidity |-> 40 + ((k * 7) % 50),
     wind |-> (k * 13) % 90,
     main |-> IF k % 3 = 0 THEN "Clear" ELSE IF k % 3 = 1 THEN "Rain" ELSE "Vog",
     description |-> IF k % 2 = 0 THEN "clear sky" ELSE "light rain",
     icon |-> IF k % 2 = 0 THEN "01d" ELSE "10d"]

\* The upstream's samples
UpstreamSamples == [k \in 0 .. SampleTimes - 1 |-> SampleAt(k)]

\* Lists of n samples in ascending time order, none earlier than instant lo
RECURSIVE AscendingLists(_, _)
AscendingLists(n, lo) ==
    IF n = 0 THEN {<<>>}
    ELSE UNION {{<<UpstreamSamples[k]>> \o s : s \in AscendingLists(n - 1, k)}
                  : k \in lo .. SampleTimes - 1}

\* Lists of n samples in any order
RECURSIVE AnyLists(_)
AnyLists(n) ==
    IF n = 0 THEN {<<>>}
    ELSE UNION {{<<UpstreamSamples[k]>> \o s : s \in AnyLists(n - 1)}
                  : k \in 0 .. SampleTimes - 1}

\* Upstream order is ascending; short lists are taken in every order too.
SampleLists(longest, shuffled) ==
    UNION {AscendingLists(n, 0) : n \in 0 .. longest}
       \cup UNION {AnyLists(n) : n \in 0 .. shuffled}

Zones == {-5 * 3600 * 1000, 0, 9 * 3600 * 1000}
Clocks == {0, 20 * 3600 * 1000}

HistIdle ==
    /\ searchHistory = <<>>
    /\ stored = NullText
    /\ lastAdd = EmptyString
    /\ typed = 0
    /\ repeats = 0

RedInit ==
    /\ samples \in SampleLists(MaxSamples, MaxShuffled)
    /\ daily = NullText
    /\ hourly = NullText
    /\ now \in Clocks
    /\ tz \in Zones
    /\ HistIdle
    /\ DashIdle

RunProcessForecastData ==
    /\ daily = NullText
    /\ daily' = processForecastData(samples, tz)
    /\ UNCHANGED <<samples, hourly, now, tz, histVars, dashVars, srvVars, mapVars>>

RedNext == RunProcessForecastData

SpecReducer == RedInit /\ [][RedNext]_vars

----------------------------------------------------------------------------
(* Hourly driver: one forecast list and one clock, then processHourlyData  *)

MaxHourlySamples == 27

\* A sample every 20 minutes: the j-th is at j * 20 minutes after the epoch
DenseSample(j) == [SampleAt(j) EXCEPT !.dt = j * 20 * 60]

\* The spacing of a list's samples, in 20-minute steps: 20 minutes, 1 hour,
\* and the upstream's 3 hours
Strides == {1, 3, 9}

\* n samples from the epoch on, stride steps apart, in ascending or in
\* descending time order
HourlyList(n, stride, ascending) ==
    [i \in 1 .. n |->
        DenseSample(stride * (IF ascending THEN i - 1 ELSE n - i))]

HourlyLists ==
    {HourlyList(x[1], x[2], x[3]) :
        x \in (0 .. MaxHourlySamples) \X Strides \X BOOLEAN}

HourInit ==
    /\ samples \in HourlyLists
    /\ daily = NullText
    /\ hourly = NullText
    /\ now \in Clocks
    /\ tz = 0
    /\ HistIdle
    /\ DashIdle

RunProcessHourlyData ==
    /\ hourly = NullText
    /\ hourly' = processHourlyData(samples, now)
    /\ UNCHANGED <<samples, daily, now, tz, histVars, dashVars, srvVars, mapVars>>

HourNext == RunProcessHourlyData

SpecHourly == HourInit /\ [][HourNext]_vars

----------------------------------------------------------------------------
(* The Express proxy                              server.js:64-326         *)

\* A human-readable message: a fixed text, and the city it names (or '')
Msg(text, city) == [text |-> text, city |-> city]

\* res.status(status).json(body)
Response(status, body) == [status |-> status, body |-> body]

\* Response.ok
IsOk(response) == response.status >= 200 /\ response.status <= 299

\* One upstream fetch: it throws, or answers with an HTTP status
UpstreamThrows == [threw |-> TRUE, status |-> 0]
Upstream(status) == [threw |-> FALSE, status |-> status]
UpstreamOk(up) == ~up.threw /\ up.status >= 200 /\ up.status <= 299
UpstreamOutcomes ==
    {UpstreamThrows} \cup {Upstream(s) : s \in {200, 401, 404, 429, 500}}

\* checkApiKey's answer when process.env.OPENWEATHER_API_KEY is unset
ApiKeyNotConfigured ==
    Response(500, [error |-> "API key not configured",
                   message |-> Msg("OpenWeatherMap API key is not set on the server",
                                   EmptyString)])

\* GET /api/health
HealthRoute(hasKey) == Response(200, [status |-> "OK", hasApiKey |-> hasKey])

\* the weather handler mounted without checkApiKey
WeatherRouteUnguarded(hasKey, city, up, data) ==
    IF up.threw
    THEN Response(500, [error |-> "Internal server error",
                        message |-> Msg("Failed to fetch weather data", EmptyString)])
    ELSE IF ~UpstreamOk(up)
    THEN Response(404, [error |-> "City not found",
                        message |-> Msg("Could not find weather data for ", city)])
    ELSE Response(200, data)

\* GET /api/weather/:city; up is the upstream's outcome, data its JSON
WeatherRoute(hasKey, city, up, data) ==
    IF ~hasKey THEN ApiKeyNotConfigured
    ELSE IF up.threw
    THEN Response(500, [error |-> "Internal server error",
                        message |-> Msg("Failed to fetch weather data", EmptyString)])
    ELSE IF ~UpstreamOk(up)
    THEN Response(404, [error |-> "City not found",
                        message |-> Msg("Could not find weather data for ", city)])
    ELSE Response(200, data)

\* GET /api/forecast/:city
ForecastRoute(hasKey, city, up, data) ==
    IF ~hasKey THEN ApiKeyNotConfigured
    ELSE IF up.threw
    THEN Response(500, [error |-> "Internal server error",
                        message |-> Msg("Failed to fetch forecast data", EmptyString)])
    ELSE IF ~UpstreamOk(up)
    THEN Response(404, [error |-> "Forecast not found",
                        message |-> Msg("Could not find forecast data for ", city)])
    ELSE Response(200, data)

CoordinatesNotFound(city) ==
    Response(404, [error |-> "City not found",
                   message |-> Msg("Could not find coordinates for ", city)])

\* GET /api/air-quality/:city; geo and geoData are the geocoding call's
\* outcome and JSON array, aq and aqData the air-pollution call's
AirQualityRoute(hasKey, city, geo, geoData, aq, aqData) ==
    IF ~hasKey THEN ApiKeyNotConfigured
    ELSE IF geo.threw \/ (UpstreamOk(geo) /\ geoData # <<>> /\ aq.threw)
    THEN Response(500, [error |-> "Internal server error",
                        message |-> Msg("Failed to fetch air quality data", EmptyString)])
    ELSE IF ~UpstreamOk(geo) \/ geoData = <<>>
    THEN CoordinatesNotFound(city)
    ELSE IF ~UpstreamOk(aq)
    THEN Response(500, [error |-> "Air quality data not available",
                        message |-> Msg("Failed to fetch air quality data", EmptyString)])
    ELSE Response(200, [city |-> city,
                        coordinates |-> [lat |-> geoData[1].lat, lon |-> geoData[1].lon],
                        airQuality |-> aqData])

\* an alerts handler that reports a failing One Call request as an error
AlertsRouteStrict(hasKey, city, geo, geoData, al, alData) ==
    IF ~hasKey THEN ApiKeyNotConfigured
    ELSE IF geo.threw \/ (UpstreamOk(geo) /\ geoData # <<>> /\ al.threw)
    THEN Response(500, [error |-> "Internal server error",
                        message |-> Msg("Failed to fetch alerts", EmptyString)])
    ELSE IF ~UpstreamOk(geo) \/ geoData = <<>>
    THEN CoordinatesNotFound(city)
    ELSE IF ~UpstreamOk(al)
    THEN Response(500, [error |-> "Alerts not available",
                        message |-> Msg("Failed to fetch alerts", EmptyString)])
    ELSE Response(200, [city |-> city,
                        alerts |-> IF "alerts" \in DOMAIN alData
                                   THEN alData.alerts ELSE <<>>])

\* GET /api/alerts/:city; al and alData are the One Call outcome and JSON
AlertsRoute(hasKey, city, geo, geoData, al, alData) ==
    IF ~hasKey THEN ApiKeyNotConfigured
    ELSE IF geo.threw \/ (UpstreamOk(geo) /\ geoData # <<>> /\ al.threw)
    THEN Response(200, [city |-> city, alerts |-> <<>>,
                        error |-> "Failed to fetch alerts"])
    ELSE IF ~UpstreamOk(geo) \/ geoData = <<>>
    THEN CoordinatesNotFound(city)
    ELSE IF ~UpstreamOk(al)
    THEN Response(200, [city |-> city, alerts |-> <<>>,
                        note |-> "Weather alerts require One Call API 3.0 subscription"])
    ELSE Response(200, [city |-> city,
                        alerts |-> IF "alerts" \in DOMAIN alData
                                   THEN alData.alerts ELSE <<>>])

\* GET /api/geocode/:city
GeocodeRoute(hasKey, up, data) ==
    IF ~hasKey THEN ApiKeyNotConfigured
    ELSE IF up.threw
    THEN Response(500, [error |-> "Internal server error",
                        message |-> Msg("Failed to get city coordinates", EmptyString)])
    ELSE IF ~UpstreamOk(up)
    THEN Response(500, [error |-> "Geocoding failed",
                        message |-> Msg("Failed to get city coordinates", EmptyString)])
    ELSE Response(200, data)

\* GET /api/config
ConfigRoute(hasKey, key) ==
    IF ~hasKey THEN Response(500, [error |-> "API key not found"])
    ELSE Response(200, [OPENWEATHER_API_KEY |-> key])

\* the object built at server.js:246-251
Suggestion(item) ==
    [name |-> item.name,
     country |-> item.country,
     state |-> item.state,
     displayName |-> IF item.state # EmptyString
                     THEN item.name \o <<",", " ">> \o item.state
                             \o <<",", " ">> \o item.country
                     ELSE item.name \o <<",", " ">> \o item.country]

\* GET /api/suggestions/:query
SuggestionsRoute(hasKey, query, up, data) ==
    IF ~hasKey THEN ApiKeyNotConfigured
    ELSE IF Len(query) < 2 THEN Response(200, <<>>)
    ELSE IF up.threw \/ ~UpstreamOk(up) THEN Response(200, <<>>)
    ELSE Response(200, [i \in DOMAIN data |-> Suggestion(data[i])])

\* The number of upstream requests a handler makes before it responds:
\* none when checkApiKey answers, one fetch for the single-call routes
SingleCalls(hasKey) == IF ~hasKey THEN 0 ELSE 1

\* air-quality and alerts: the geocoding fetch, then the second fetch unless
\* the geocoding threw, was not OK or found nothing
GeocodedCalls(hasKey, geo, geoData) ==
    IF ~hasKey THEN 0
    ELSE IF geo.threw \/ ~UpstreamOk(geo) \/ geoData = <<>> THEN 1
    ELSE 2

\* suggestions: no fetch for a query shorter than 2 characters
\* of these, the requests to the geocoder that air-quality (server.js:152)
\* and alerts (server.js:267) make for one request of the page
GeocodingCalls(hasKey) == IF ~hasKey THEN 0 ELSE 1

SuggestionsCalls(hasKey, query) ==
    IF ~hasKey THEN 0 ELSE IF Len(query) < 2 THEN 0 ELSE 1

----------------------------------------------------------------------------
(* The dashboard's fetch helpers                  script.js:121-185        *)

\* What a fetch() of the browser ends with: a rejection (network error), or
\* the server's response
Rejected == [rejected |-> TRUE]
Arrived(response) == [rejected |-> FALSE, response |-> response]

\* The end of an async function: an Error thrown, or a value returned
Throw(message) == [threw |-> TRUE, message |-> message]
Return(value) == [threw |-> FALSE, value |-> value]

FailedToFetch == Msg("Failed to fetch", EmptyString)

\* errorData.message || fallback
MessageOr(errorData, fallback) ==
    IF "message" \in DOMAIN errorData THEN errorData.message ELSE fallback

fetchCurrentWeatherLenient(city, arrival) ==
    IF arrival.rejected THEN Throw(FailedToFetch)
    ELSE Return(arrival.response.body)

\* fetchCurrentWeather(city), its fetch ending with arrival
fetchCurrentWeather(city, arrival) ==
    IF arrival.rejected THEN Throw(FailedToFetch)
    ELSE IF ~IsOk(arrival.response)
    THEN Throw(MessageOr(arrival.response.body, Msg("City not found: ", city)))
    ELSE Return(arrival.response.body)

\* fetchForecast(city)
fetchForecast(city, arrival, zone) ==
    IF arrival.rejected THEN Throw(FailedToFetch)
    ELSE IF ~IsOk(arrival.response)
    THEN Throw(MessageOr(arrival.response.body, Msg("Forecast not found for: ", city)))
    ELSE Return(processForecastData(arrival.response.body.list, zone))

\* fetchHourlyForecast(city)
fetchHourlyForecast(arrival, clock) ==
    IF ~arrival.rejected /\ IsOk(arrival.response)
    THEN processHourlyData(arrival.response.body.list, clock)
    ELSE <<>>

fetchAirQualityStrict(arrival) ==
    IF arrival.rejected THEN Throw(FailedToFetch)
    ELSE IF ~IsOk(arrival.response)
    THEN Throw(arrival.response.body.message)
    ELSE Return(arrival.response.body)

\* fetchAirQuality(city): never throws
fetchAirQuality(arrival) ==
    IF ~arrival.rejected /\ IsOk(arrival.response)
    THEN Return(arrival.response.body)
    ELSE Return(Null)

\* fetchAlerts(city)
fetchAlerts(arrival) ==
    IF ~arrival.rejected /\ IsOk(arrival.response)
    THEN arrival.response.body
    ELSE [alerts |-> <<>>]

\* getApiKey(), when this.apiKey was unset and its fetch ends with arrival:
\* the key returned ("" for null)
getApiKey(arrival) ==
    IF ~arrival.rejected /\ IsOk(arrival.response)
    THEN arrival.response.body.OPENWEATHER_API_KEY
    ELSE ""

----------------------------------------------------------------------------
(* The page                                       script.js:235-605        *)

MapZoom == 5

Initial == [kind |-> "initial"]

\* the containers as index.html ships them
InitialPage ==
    [current |-> Initial, forecast |-> Initial, hourly |-> Initial,
     airQuality |-> Initial, alerts |-> Initial, maps |-> Initial]

\* showLoading()
showLoading(page) ==
    [page EXCEPT !.current = [kind |-> "loading", text |-> "Loading current weather..."],
                 !.forecast = [kind |-> "loading", text |-> "Loading forecast..."]]

\* showError(message)
showError(page, message) ==
    [page EXCEPT !.current = [kind |-> "error", message |-> message],
                 !.forecast = [kind |-> "error", message |-> message]]

\* displayCurrentWeather(weatherData): the content of the container
displayCurrentWeather(weatherData) ==
    [kind |-> "weather",
     name |-> weatherData.name,
     temp |-> RoundTenths(weatherData.temp),
     humidity |-> weatherData.humidity,
     wind |-> RoundKmh(weatherData.wind),
     icon |-> getWeatherIcon(weatherData.main),
     description |-> weatherData.description]

\* displayForecast(forecastData)
displayForecast(forecastData) ==
    IF forecastData = <<>>
    THEN [kind |-> "placeholder", text |-> "No forecast data available"]
    ELSE [kind |-> "cards", cards |-> forecastData]

\* displayHourlyForecast(hourlyData)
displayHourlyForecast(hourlyData) ==
    IF hourlyData = <<>>
    THEN [kind |-> "placeholder", text |-> "No hourly forecast available"]
    ELSE [kind |-> "cards", cards |-> hourlyData]

\* a switch that takes an ordinal past either end for the nearest label
AqiTextClamped(aqi) ==
    CASE aqi <= 1 -> "Good"
      [] aqi = 2 -> "Fair"
      [] aqi = 3 -> "Moderate"
      [] aqi = 4 -> "Poor"
      [] OTHER -> "Very Poor"

\* the switch at script.js:394-401
AqiText(aqi) ==
    CASE aqi = 1 -> "Good"
      [] aqi = 2 -> "Fair"
      [] aqi = 3 -> "Moderate"
      [] aqi = 4 -> "Poor"
      [] aqi = 5 -> "Very Poor"
      [] OTHER -> "Unknown"

AqiColor(aqi) ==
    CASE aqi = 1 -> "#4CAF50"
      [] aqi = 2 -> "#FF9800"
      [] aqi = 3 -> "#FF5722"
      [] aqi = 4 -> "#9C27B0"
      [] aqi = 5 -> "#7B1FA2"
      [] OTHER -> "#9E9E9E"

\* displayAirQuality(airQualityData)
displayAirQuality(airQualityData) ==
    IF airQualityData = Null \/ airQualityData.airQuality = Null
    THEN [kind |-> "placeholder", text |-> "Air quality data not available"]
    ELSE LET aq == airQualityData.airQuality.list[1]
         IN  [kind |-> "aq",
              aqi |-> aq.main.aqi,
              label |-> AqiText(aq.main.aqi),
              color |-> AqiColor(aq.main.aqi),
              components |-> aq.components]

\* displayAlerts(alertsData)
displayAlerts(alertsData) ==
    IF alertsData.alerts = <<>>
    THEN [kind |-> "placeholder", text |-> "No active weather alerts"]
    ELSE [kind |-> "alerts", items |-> alertsData.alerts]

\* script.js:99-103
displayResults(page, currentWeather, forecast, hourlyForecast, airQuality, alerts) ==
    [page EXCEPT !.current = displayCurrentWeather(currentWeather),
                 !.forecast = displayForecast(forecast),
                 !.hourly = displayHourlyForecast(hourlyForecast),
                 !.airQuality = displayAirQuality(airQuality),
                 !.alerts = displayAlerts(alerts)]

\* 2 to the power n, Math.pow(2, n)
RECURSIVE Pow2(_)
Pow2(n) == IF n = 0 THEN 1 ELSE 2 * Pow2(n - 1)

\* getTileX(lon, zoom) with Math.round in place of Math.floor
getTileXRounded(lon, zoom) == (2 * (lon + 180) * Pow2(zoom) + 360) \div 720

\* getTileX(lon, zoom): Math.floor((lon + 180) / 360 * 2^zoom), lon in whole
\* degrees
getTileX(lon, zoom) == ((lon + 180) * Pow2(zoom)) \div 360

\* The latitudes getTileY is tabulated for, and the zoom the table reaches
Latitudes == {-85, -60, -30, 0, 30, 49, 52, 60, 85}
MercatorBits == 8

\* Math.floor((1 - Math.log(Math.tan(latRad) + 1 / Math.cos(latRad)) / Math.PI)
\* / 2 * 2^MercatorBits) for latRad = lat * Math.PI / 180
MercatorRow(lat) ==
    CASE lat = -85 -> 255
      [] lat = -60 -> 181
      [] lat = -30 -> 150
      [] lat = 0 -> 128
      [] lat = 30 -> 105
      [] lat = 49 -> 87
      [] lat = 52 -> 84
      [] lat = 60 -> 74
      [] lat = 85 -> 0

\* getTileY(lat, zoom), for zoom <= MercatorBits: the row at zoom is the row
\* at MercatorBits without its low bits
getTileY(lat, zoom) == MercatorRow(lat) \div Pow2(MercatorBits - zoom)

\* displayWeatherMaps(lat, lon) once getApiKey() gave key: the two tile
\* images are set unless the key is missing
displayWeatherMaps(page, lat, lon, key) ==
    IF key = "" THEN page
    ELSE [page EXCEPT !.maps = [kind |-> "tiles", zoom |-> MapZoom,
                                x |-> getTileX(lon, MapZoom),
                                y |-> getTileY(lat, MapZoom)]]

----------------------------------------------------------------------------
(* The world the page talks to: the user's cities and the upstream's data   *)

Paris == <<"p", "a", "r", "i", "s">>
London == <<"L", "o", "n", "d", "o", "n">>

\* what a user types into the search form: paris and London in turn (the
\* history items offer the other choices)
TypedCities == {Paris, London}
TypedAt(k) == IF k % 2 = 1 THEN {Paris} ELSE {London}

\* the upstream's current weather for a city
WeatherOf(city) ==
    [name |-> city,
     temp |-> IF city = London THEN 124 ELSE 215,
     humidity |-> 70,
     wind |-> 35,
     main |-> IF city = London THEN "Rain" ELSE "Clear",
     description |-> IF city = London THEN "light rain" ELSE "clear sky",
     coord |-> IF city = London
               THEN [lat |-> 52, lon |-> 0] ELSE [lat |-> 49, lon |-> 2]]

\* the upstream's forecast JSON: it may differ from one request to the next
ForecastBodies ==
    {[list |-> <<UpstreamSamples[1], UpstreamSamples[2], UpstreamSamples[3]>>]}

\* the geocoder's JSON array (limit=1) for a city: a match, or none
GeoData(city) == {<<>>, <<[name |-> city, lat |-> WeatherOf(city).coord.lat,
                           lon |-> WeatherOf(city).coord.lon]>>}

\* the upstream's air-pollution JSON
AirPollutionData ==
    [list |-> <<[main |-> [aqi |-> 3],
                 components |-> [pm2_5 |-> 8, pm10 |-> 12, no2 |-> 15]]>>]

\* the upstream's One Call JSON: with an alert, or without the alerts field
OneCallData ==
    {[alerts |-> <<[event |-> "Flood warning", description |-> "River levels rising",
                    end |-> 86400]>>],
     [lat |-> 0]}

ServerKey == "owm-key"

\* every city a search can be about
AllCities == TypedCities \cup {London}

HealthArrivals == {Rejected, Arrived(HealthRoute(hasApiKey))}

\* What the fetch of each endpoint can end with, for each server
\* configuration and city: tabulated once.
Tabulated(f) == f @@ <<>>

WeatherArrivalsOf ==
    Tabulated([hasKey \in BOOLEAN |-> Tabulated([city \in AllCities |->
        {Rejected} \cup
        {Arrived(WeatherRoute(hasKey, city, up, WeatherOf(city))) :
            up \in UpstreamOutcomes}])])

ForecastArrivalsOf ==
    Tabulated([hasKey \in BOOLEAN |-> Tabulated([city \in AllCities |->
        {Rejected} \cup
        {Arrived(ForecastRoute(hasKey, city, x[1], x[2])) :
            x \in UpstreamOutcomes \X ForecastBodies}])])

AirQualityArrivalsOf ==
    Tabulated([hasKey \in BOOLEAN |-> Tabulated([city \in AllCities |->
        {Rejected} \cup
        {Arrived(AirQualityRoute(hasKey, city, x[1], x[2], x[3], AirPollutionData)) :
            x \in UpstreamOutcomes \X GeoData(city) \X UpstreamOutcomes}])])

AlertsArrivalsOf ==
    Tabulated([hasKey \in BOOLEAN |-> Tabulated([city \in AllCities |->
        {Rejected} \cup
        {Arrived(AlertsRoute(hasKey, city, x[1], x[2], x[3], x[4])) :
            x \in UpstreamOutcomes \X GeoData(city) \X UpstreamOutcomes \X OneCallData}])])

WeatherArrivals(city) == WeatherArrivalsOf[hasApiKey][city]
ForecastArrivals(city) == ForecastArrivalsOf[hasApiKey][city]
AirQualityArrivals(city) == AirQualityArrivalsOf[hasApiKey][city]
AlertsArrivals(city) == AlertsArrivalsOf[hasApiKey][city]
ConfigArrivals == {Rejected, Arrived(ConfigRoute(hasApiKey, ServerKey))}

----------------------------------------------------------------------------
(* Server driver: the proxy serves one request after the other             *)

\* the :query of a suggestions request
Queries == {<<"p">>, <<"p", "a">>, <<"p", "a", "r">>}

\* the geocoder's JSON array (limit=5) for a query: no match, or two matches,
\* one with and one without a state
GeoMatches(query) ==
    {<<>>,
     <<[name |-> Paris, country |-> <<"F", "R">>, state |-> EmptyString],
       [name |-> Paris, country |-> <<"U", "S">>, state |-> <<"T", "X">>]>>}

SrvInit ==
    /\ hasApiKey \in BOOLEAN
    /\ exchange = Null
    /\ tile = Null
    /\ health = "pending"
    /\ searches = <<>>
    /\ display = InitialPage
    /\ currentCity = EmptyString
    /\ apiKey = ""
    /\ HistIdle
    /\ RedIdle

Served(record) ==
    /\ exchange' = record
    /\ UNCHANGED <<histVars, redVars, dashVars, mapVars>>

ServeHealth ==
    Served([route |-> "health", calls |-> 0, response |-> HealthRoute(hasApiKey)])

ServeWeather ==
    \E city \in AllCities, up \in UpstreamOutcomes :
       Served([route |-> "weather", city |-> city, up |-> up,
               calls |-> SingleCalls(hasApiKey),
               response |-> WeatherRoute(hasApiKey, city, up, WeatherOf(city))])

ServeForecast ==
    \E city \in AllCities, up \in UpstreamOutcomes, data \in ForecastBodies :
       Served([route |-> "forecast", city |-> city, up |-> up,
               calls |-> SingleCalls(hasApiKey),
               response |-> ForecastRoute(hasApiKey, city, up, data)])

ServeAirQuality ==
    \E city \in AllCities, geo \in UpstreamOutcomes, up \in UpstreamOutcomes :
       \E geoData \in GeoData(city) :
          Served([route |-> "airQuality", city |-> city, geo |-> geo,
                  geoData |-> geoData, up |-> up,
                  calls |-> GeocodedCalls(hasApiKey, geo, geoData),
                  response |-> AirQualityRoute(hasApiKey, city, geo, geoData, up,
                                               AirPollutionData)])

ServeAlerts ==
    \E city \in AllCities, geo \in UpstreamOutcomes, up \in UpstreamOutcomes :
       \E geoData \in GeoData(city), data \in OneCallData :
          Served([route |-> "alerts", city |-> city, geo |-> geo,
                  geoData |-> geoData, up |-> up, data |-> data,
                  calls |-> GeocodedCalls(hasApiKey, geo, geoData),
                  response |-> AlertsRoute(hasApiKey, city, geo, geoData, up, data)])

ServeGeocode ==
    \E city \in AllCities, up \in UpstreamOutcomes :
       \E data \in GeoData(city) :
          Served([route |-> "geocode", city |-> city, up |-> up,
                  calls |-> SingleCalls(hasApiKey),
                  response |-> GeocodeRoute(hasApiKey, up, data)])

ServeSuggestions ==
    \E query \in Queries, up \in UpstreamOutcomes :
       \E data \in GeoMatches(query) :
          Served([route |-> "suggestions", query |-> query, up |-> up,
                  data |-> data,
                  calls |-> SuggestionsCalls(hasApiKey, query),
                  response |-> SuggestionsRoute(hasApiKey, query, up, data)])

ServeConfig ==
    Served([route |-> "config", calls |-> 0,
            response |-> ConfigRoute(hasApiKey, ServerKey)])

SrvNext ==
    \/ ServeHealth
    \/ ServeWeather
    \/ ServeForecast
    \/ ServeAirQuality
    \/ ServeAlerts
    \/ ServeGeocode
    \/ ServeSuggestions
    \/ ServeConfig

SpecServer == SrvInit /\ [][SrvNext]_vars

----------------------------------------------------------------------------
(* Demo mode                                      script.js:902-1024       *)

MsPerHour == 60 * 60 * 1000

\* sampleCurrentWeather
SampleCurrentWeather ==
    [name |-> London, temp |-> 180, humidity |-> 65, wind |-> 55,
     main |-> "Clouds", description |-> "Partly cloudy",
     coord |-> [lat |-> 52, lon |-> 0]]

\* sampleForecast, Date.now() = clock
SampleForecast(clock) ==
    <<[date |-> clock + MsPerDay, temp |-> 19, description |-> "Sunny",
       humidity |-> 60, windSpeed |-> 12, icon |-> "01d"],
      [date |-> clock + 2 * MsPerDay, temp |-> 17, description |-> "Cloudy",
       humidity |-> 70, windSpeed |-> 15, icon |-> "03d"],
      [date |-> clock + 3 * MsPerDay, temp |-> 20, description |-> "Rainy",
       humidity |-> 80, windSpeed |-> 18, icon |-> "10d"],
      [date |-> clock + 4 * MsPerDay, temp |-> 16, description |-> "Partly cloudy",
       humidity |-> 65, windSpeed |-> 10, icon |-> "02d"],
      [date |-> clock + 5 * MsPerDay, temp |-> 22, description |-> "Sunny",
       humidity |-> 55, windSpeed |-> 8, icon |-> "01d"]>>

\* One hour's draws: Math.floor(Math.random() * n) for n = 10, 3, 3, 30, 15
Draws == [temp : 0 .. 9, description : 0 .. 2, icon : 0 .. 2,
          humidity : 0 .. 29, wind : 0 .. 14]

\* the object pushed at script.js:984-991, for hour i with the draws r
SampleHour(clock, i, r) ==
    [time |-> clock + i * MsPerHour,
     temp |-> r.temp + 15,
     description |-> <<"Sunny", "Cloudy", "Partly cloudy">>[r.description + 1],
     icon |-> <<"sun", "cloud", "sun behind cloud">>[r.icon + 1],
     humidity |-> r.humidity + 50,
     windSpeed |-> r.wind + 5]

\* a loop that starts at the current hour: for (let i = 0; i < 24; i++)
SampleHourlyFromZero(clock, draws) ==
    [i \in 1 .. 24 |-> SampleHour(clock, i - 1, draws[i])]

\* sampleHourly, for the draws of the 24 hours
SampleHourly(clock, draws) == [i \in 1 .. 24 |-> SampleHour(clock, i, draws[i])]

\* sampleAirQuality
SampleAirQuality ==
    [airQuality |->
       [list |-> <<[main |-> [aqi |-> 2],
                    components |-> [co |-> 200, no2 |-> 15, o3 |-> 45, so2 |-> 2,
                                    pm2_5 |-> 8, pm10 |-> 12]]>>]]

\* sampleAlerts
SampleAlerts == [alerts |-> <<>>]

\* The run of draws the dashboard specification takes: least and most
\* alternating.
LowDraws == [temp |-> 0, description |-> 0, icon |-> 0, humidity |-> 0, wind |-> 0]
HighDraws == [temp |-> 9, description |-> 2, icon |-> 2, humidity |-> 29, wind |-> 14]
DemoDraws == {[i \in 1 .. 24 |-> IF i % 2 = 0 THEN LowDraws ELSE HighDraws]}

\* The runs of draws the demo specification takes: each draw the least or
\* the greatest value Math.floor(Math.random() * n) can give, two hours'
\* draws alternating.
ExtremeDraws ==
    {r \in Draws : /\ r.temp \in {0, 9}
                   /\ r.description \in {0, 2}
                   /\ r.icon \in {0, 2}
                   /\ r.humidity \in {0, 29}
                   /\ r.wind \in {0, 14}}
DrawRuns ==
    {[i \in 1 .. 24 |-> IF i % 2 = 1 THEN x[1] ELSE x[2]] :
        x \in ExtremeDraws \X ExtremeDraws}

----------------------------------------------------------------------------
(* The dashboard                                  script.js:3-119          *)

MaxSearches == 2

\* a searchWeather(city) call suspended at its first await
\* (geocodings: how often the server asked the geocoder on its behalf)
NewSearch(city) ==
    [city |-> city, pc |-> "weather", currentWeather |-> Null, forecast |-> <<>>, hourlyForecast |-> <<>>,
     airQuality |-> Null, geocodings |-> 0]

\* a call that returned: its locals are gone
Ended(search, pc) ==
    [search EXCEPT !.pc = pc, !.currentWeather = Null, !.forecast = <<>>,
                   !.hourlyForecast = <<>>, !.airQuality = Null,
                   !.geocodings = 0]

\* the requests to the geocoder behind one answered air-quality or alerts
\* request: none when the fetch was rejected before the server was reached
Geocodings(arrival) ==
    IF arrival.rejected THEN 0 ELSE GeocodingCalls(hasApiKey)

\* The fetches a searchWeather call has issued when it is suspended at pc:
\* each is issued by the await that follows the one before (script.js:84-96,
\* and 460 for /api/config)
Issued(pc) ==
    CASE pc = "weather" -> {"weather"}
      [] pc = "forecast" -> {"weather", "forecast"}
      [] pc = "hourly" -> {"weather", "forecast", "hourly"}
      [] pc = "airQuality" -> {"weather", "forecast", "hourly", "airQuality"}
      [] pc = "alerts" -> {"weather", "forecast", "hourly", "airQuality", "alerts"}
      [] pc = "config" -> {"weather", "forecast", "hourly", "airQuality", "alerts",
                           "config"}

DashInit ==
    /\ hasApiKey \in BOOLEAN
    /\ health = "pending"
    /\ searches = <<>>
    /\ display = InitialPage
    /\ currentCity = EmptyString
    /\ apiKey = ""
    /\ exchange = Null
    /\ tile = Null
    /\ stored = NullText
    /\ searchHistory = LoadHistory(stored)
    /\ lastAdd = EmptyString
    /\ typed = 0
    /\ repeats = 0
    /\ samples = <<>>
    /\ daily = NullText
    /\ hourly = NullText
    /\ now = 20 * MsPerHour
    /\ tz = 0

\* enableDemoMode(), with the draws of its 24 hours
enableDemoMode(draws) ==
    /\ display' = displayResults(display, SampleCurrentWeather, SampleForecast(now),
                                 SampleHourly(now, draws), SampleAirQuality,
                                 SampleAlerts)
    /\ HistApply(London)

\* checkServerHealth(), resumed when its fetch ends
\* runs: the runs of draws Math.random() may give enableDemoMode()
HealthArrivesDrawing(arrival, runs) ==
    /\ health = "pending"
    /\ IF arrival.rejected \/ ~arrival.response.body.hasApiKey
       THEN /\ health' = "demo"
            /\ \E draws \in runs : enableDemoMode(draws)
       ELSE /\ health' = "live"
            /\ UNCHANGED <<display, searchHistory, stored, lastAdd>>
    /\ UNCHANGED <<typed, repeats, redVars, srvVars, mapVars, hasApiKey, searches,
                   currentCity, apiKey>>

HealthArrives(arrival) == HealthArrivesDrawing(arrival, DemoDraws)

\* searchWeather(city) up to its first await: showLoading(), and the fetch of
\* fetchCurrentWeather is issued
searchWeather(city) ==
    /\ Len(searches) < MaxSearches
    /\ display' = showLoading(display)
    /\ searches' = Append(searches, NewSearch(city))
    /\ UNCHANGED <<histVars, redVars, srvVars, mapVars, hasApiKey, health, currentCity,
                   apiKey>>

\* the search form is submitted
SubmitSearch == \E city \in TypedAt(Len(searches) + 1) : searchWeather(city)

\* a history item is clicked
ClickHistory == \E i \in DOMAIN searchHistory : searchWeather(searchHistory[i])

\* a catch block that records the city of the failed search all the same
CatchRecording(s, message) ==
    /\ display' = showError(display, message)
    /\ searches' = [searches EXCEPT ![s] = Ended(@, "failed")]
    /\ HistApply(searches[s].city)
    /\ UNCHANGED <<typed, repeats, currentCity, apiKey>>

\* the catch block of searchWeather
Catch(s, message) ==
    /\ display' = showError(display, message)
    /\ searches' = [searches EXCEPT ![s] = Ended(@, "failed")]
    /\ UNCHANGED <<histVars, currentCity, apiKey>>

\* a call that renders the current weather as soon as it has it
AwaitRendering(s, search, endpoint) ==
    /\ searches' = [searches EXCEPT
                      ![s] = [search EXCEPT !.pc = endpoint]]
    /\ display' = [display EXCEPT
                     !.current = displayCurrentWeather(search.currentWeather)]
    /\ UNCHANGED <<histVars, currentCity, apiKey>>

\* the call goes on to its next await, where the fetch of endpoint is issued
Await(s, search, endpoint) ==
    /\ searches' = [searches EXCEPT
                      ![s] = [search EXCEPT !.pc = endpoint]]
    /\ UNCHANGED <<display, histVars, currentCity, apiKey>>

\* script.js:110-113, after displayWeatherMaps
Complete(s, page, key) ==
    /\ display' = page
    /\ apiKey' = key
    /\ HistApply(searches[s].city)
    /\ currentCity' = searches[s].city
    /\ searches' = [searches EXCEPT ![s] = Ended(@, "done")]
    /\ UNCHANGED <<typed, repeats>>

\* script.js:84: the fetch of fetchCurrentWeather ends
WeatherArrives(s, arrival) ==
    /\ searches[s].pc = "weather"
    /\ LET result == fetchCurrentWeather(searches[s].city, arrival)
       IN  IF result.threw THEN Catch(s, result.message)
           ELSE Await(s, [searches[s] EXCEPT !.currentWeather = result.value],
                      "forecast")
    /\ UNCHANGED <<redVars, srvVars, mapVars, hasApiKey, health>>

\* script.js:87: the fetch of fetchForecast ends
ForecastArrives(s, arrival) ==
    /\ searches[s].pc = "forecast"
    /\ LET result == fetchForecast(searches[s].city, arrival, tz)
       IN  IF result.threw THEN Catch(s, result.message)
           ELSE Await(s, [searches[s] EXCEPT !.forecast = result.value], "hourly")
    /\ UNCHANGED <<redVars, srvVars, mapVars, hasApiKey, health>>

\* script.js:90: the fetch of fetchHourlyForecast ends
HourlyArrives(s, arrival) ==
    /\ searches[s].pc = "hourly"
    /\ Await(s, [searches[s] EXCEPT
                   !.hourlyForecast = fetchHourlyForecast(arrival, now)],
             "airQuality")
    /\ UNCHANGED <<redVars, srvVars, mapVars, hasApiKey, health>>

\* script.js:93: the fetch of fetchAirQuality ends
AirQualityArrives(s, arrival) ==
    /\ searches[s].pc = "airQuality"
    /\ LET result == fetchAirQuality(arrival)
       IN  IF result.threw THEN Catch(s, result.message)
           ELSE Await(s, [searches[s] EXCEPT
                            !.airQuality = result.value,
                            !.geocodings = @ + Geocodings(arrival)],
                      "alerts")
    /\ UNCHANGED <<redVars, srvVars, mapVars, hasApiKey, health>>

\* script.js:96-113: the fetch of fetchAlerts ends; the results are
\* displayed; displayWeatherMaps awaits getApiKey, which fetches /api/config
\* when this.apiKey is unset
AlertsArrives(s, arrival) ==
    /\ searches[s].pc = "alerts"
    /\ LET search == searches[s]
           page == displayResults(display, search.currentWeather, search.forecast,
                                  search.hourlyForecast, search.airQuality,
                                  fetchAlerts(arrival))
           coord == search.currentWeather.coord
       IN  IF "coord" \notin DOMAIN search.currentWeather
           THEN Complete(s, page, apiKey)
           ELSE IF apiKey # ""
           THEN Complete(s, displayWeatherMaps(page, coord.lat, coord.lon, apiKey),
                         apiKey)
           ELSE /\ display' = page
                /\ searches' = [searches EXCEPT
                      ![s] = [search EXCEPT !.pc = "config",
                                            !.geocodings = @ + Geocodings(arrival),
                                            !.forecast = <<>>,
                                            !.hourlyForecast = <<>>,
                                            !.airQuality = Null]]
                /\ UNCHANGED <<histVars, currentCity, apiKey>>
    /\ UNCHANGED <<redVars, srvVars, mapVars, hasApiKey, health>>

\* script.js:509-521, then 469-491 and 110-113: the fetch of getApiKey ends
ConfigArrives(s, arrival) ==
    /\ searches[s].pc = "config"
    /\ LET key == getApiKey(arrival)
           coord == searches[s].currentWeather.coord
       IN  Complete(s, displayWeatherMaps(display, coord.lat, coord.lon, key),
                    IF key # "" THEN key ELSE apiKey)
    /\ UNCHANGED <<redVars, srvVars, mapVars, hasApiKey, health>>

Next ==
    \/ \E arrival \in HealthArrivals : HealthArrives(arrival)
    \/ SubmitSearch
    \/ ClickHistory
    \/ \E s \in DOMAIN searches :
          \/ \E arrival \in WeatherArrivals(searches[s].city) :
                WeatherArrives(s, arrival)
          \/ \E arrival \in ForecastArrivals(searches[s].city) :
                ForecastArrives(s, arrival)
          \/ \E arrival \in ForecastArrivals(searches[s].city) :
                HourlyArrives(s, arrival)
          \/ \E arrival \in AirQualityArrivals(searches[s].city) :
                AirQualityArrives(s, arrival)
          \/ \E arrival \in AlertsArrivals(searches[s].city) :
                AlertsArrives(s, arrival)
          \/ \E arrival \in ConfigArrivals : ConfigArrives(s, arrival)

Spec == DashInit /\ [][Next]_vars

----------------------------------------------------------------------------
(* Demo driver: the page is loaded at some instant, in some time zone, and  *)
(* the health check ends                                                   *)

DemoInit ==
    /\ hasApiKey \in BOOLEAN
    /\ health = "pending"
    /\ searches = <<>>
    /\ display = InitialPage
    /\ currentCity = EmptyString
    /\ apiKey = ""
    /\ exchange = Null
    /\ tile = Null
    /\ stored = NullText
    /\ searchHistory = LoadHistory(stored)
    /\ lastAdd = EmptyString
    /\ typed = 0
    /\ repeats = 0
    /\ samples = <<>>
    /\ daily = NullText
    /\ hourly = NullText
    /\ now \in Clocks
    /\ tz \in Zones

DemoNext ==
    \E arrival \in HealthArrivals : HealthArrivesDrawing(arrival, DrawRuns)

SpecDemo == DemoInit /\ [][DemoNext]_vars

-----------------------------------------------------------------------------
(* Air-quality driver: displayAirQuality is handed one air-quality result   *)

MaxAqi == 7

\* main.aqi of the upstream's reading: the ordinals 1..5 and integers on
\* either side of them
AqiOrdinals == -1 .. MaxAqi

\* components of the upstream's reading
Concentrations == [pm2_5 : {0, 8, 300}, pm10 : {0, 12, 400}, no2 : {0, 15}]

\* what fetchAirQuality can return: null, or the body of /api/air-quality
AirQualityResults ==
    {Null} \cup
    {[airQuality |-> [list |-> <<[main |-> [aqi |-> x[1]], components |-> x[2]]>>]] :
        x \in AqiOrdinals \X Concentrations}

AqiInit ==
    /\ hasApiKey = TRUE
    /\ health = "live"
    /\ searches = <<>>
    /\ display = InitialPage
    /\ currentCity = EmptyString
    /\ apiKey = ""
    /\ exchange = Null
    /\ tile = Null
    /\ HistIdle
    /\ RedIdle

ShowAirQuality ==
    /\ display.airQuality = Initial
    /\ \E airQualityData \in AirQualityResults :
          display' = [display EXCEPT !.airQuality = displayAirQuality(airQualityData)]
    /\ UNCHANGED <<histVars, redVars, srvVars, mapVars, hasApiKey, health, searches,
                   currentCity, apiKey>>

AqiNext == ShowAirQuality

SpecAqi == AqiInit /\ [][AqiNext]_vars

-----------------------------------------------------------------------------
(* Tile driver: getTileX and getTileY are called, again and again, with one *)
(* position and zoom                                                       *)

MaxZoom == 5
MaxTileCalls == 2

\* lon: every whole degree
Longitudes == -180 .. 180

TileInit ==
    /\ tile \in [lat : Latitudes, lon : Longitudes, zoom : 0 .. MaxZoom, calls : {0}]
    /\ exchange = Null
    /\ hasApiKey = TRUE
    /\ health = "live"
    /\ searches = <<>>
    /\ display = InitialPage
    /\ currentCity = EmptyString
    /\ apiKey = ""
    /\ HistIdle
    /\ RedIdle

CallTiles ==
    /\ tile.calls < MaxTileCalls
    /\ tile' = [lat |-> tile.lat, lon |-> tile.lon, zoom |-> tile.zoom,
                calls |-> tile.calls + 1,
                x |-> getTileX(tile.lon, tile.zoom),
                y |-> getTileY(tile.lat, tile.zoom)]
    /\ UNCHANGED <<histVars, redVars, dashVars, srvVars>>

TileNext == CallTiles

SpecTiles == TileInit /\ [][TileNext]_vars

-----------------------------------------------------------------------------
(* Claims on the search history                                            *)

SameCity(a, b) == toLowerCase(a) = toLowerCase(b)

\* C6: in every state reached by addToSearchHistory calls from an empty
\* history, searchHistory has at most 10 entries and no two entries are
\* equal under case-insensitive comparison (its entries have as many
\* distinct lower-case forms as it has entries).
C6_HistoryBoundedAndDeduplicated ==
    /\ Len(searchHistory) <= 10
    /\ Cardinality({toLowerCase(searchHistory[i]) : i \in DOMAIN searchHistory})
          = Len(searchHistory)

\* a full history that holds a Capitalised (re-typed) entry
C6_Witness ==
    /\ Len(searchHistory) = 10
    /\ repeats = MaxRepeats
    /\ \E i \in DOMAIN searchHistory :
          searchHistory[i] # toLowerCase(searchHistory[i])

\* C7: adding a city already present up to letter case leaves the length
\* unchanged, keeps exactly one entry for that city, puts it at the front
\* in the newly typed spelling, and keeps the order of the other entries.
\* (Every step of SpecHistory is one addToSearchHistory(lastAdd') call.)
C7_ReAddMovesToFront ==
    [][\A i \in DOMAIN searchHistory :
          SameCity(searchHistory[i], lastAdd') =>
             /\ Len(searchHistory') = Len(searchHistory)
             /\ searchHistory'[1] = lastAdd'
             /\ Cardinality({j \in DOMAIN searchHistory' :
                               SameCity(searchHistory'[j], lastAdd')}) = 1
             /\ Tail(searchHistory') =
                  SubSeq(searchHistory, 1, i - 1)
                     \o SubSeq(searchHistory, i + 1, Len(searchHistory))
      ]_vars

\* a city of the middle of a full history was re-typed in another spelling
C7_Witness ==
    /\ repeats > 0
    /\ Len(searchHistory) = 10
    /\ lastAdd # toLowerCase(lastAdd)
    /\ searchHistory[1] = lastAdd
    /\ toLowerCase(lastAdd) = Itinerary(4)
    /\ searchHistory[2] = Itinerary(10)

\* C8: when the history holds 10 entries and a city distinct from all of
\* them is added, the last entry is dropped, the new city is at the front,
\* the other 9 entries keep their order, and the length stays 10.
C8_EleventhCityDropsOldest ==
    [][(/\ Len(searchHistory) = 10
        /\ \A i \in DOMAIN searchHistory : ~SameCity(searchHistory[i], lastAdd'))
       => (/\ Len(searchHistory') = 10
           /\ searchHistory' = <<lastAdd'>> \o SubSeq(searchHistory, 1, 9))
      ]_vars

\* the 11th itinerary city was added and the first one is gone
C8_Witness ==
    /\ typed = 11
    /\ lastAdd = Itinerary(11)
    /\ Len(searchHistory) = 10
    /\ searchHistory[1] = Itinerary(11)
    /\ \A i \in DOMAIN searchHistory : ~SameCity(searchHistory[i], Itinerary(1))

----------------------------------------------------------------------------
(* Claims on the forecast reducer                                          *)

DaysOf(list, zone) ==
    {toDateString(DateOf(list[i]), zone) : i \in DOMAIN list}

Min(a, b) == IF a < b THEN a ELSE b

\* C10: the daily view has at most min(5, number of distinct calendar days
\* in the input) entries and no two entries fall on the same calendar day.
C10_DailyViewBounded ==
    daily # NullText =>
       /\ Len(daily) <= Min(5, Cardinality(DaysOf(samples, tz)))
       /\ \A i, j \in DOMAIN daily :
             toDateString(daily[i].date, tz) = toDateString(daily[j].date, tz)
                => i = j

\* an input of 7 samples on 6 days, two of them on the first day
C10_Witness ==
    /\ daily # NullText
    /\ Len(samples) = 7
    /\ Cardinality(DaysOf(samples, tz)) = 6
    /\ toDateString(DateOf(samples[1]), tz) = toDateString(DateOf(samples[2]), tz)
    /\ Len(daily) = 5

----------------------------------------------------------------------------
(* Claims on searchWeather                                                 *)

\* a fetch that did not end with a 2xx response
Failed(arrival) == arrival.rejected \/ ~IsOk(arrival.response)

NotFound(arrival) == ~arrival.rejected /\ arrival.response.status = 404

ErrorShown(page, message) ==
    /\ page.current = [kind |-> "error", message |-> message]
    /\ page.forecast = [kind |-> "error", message |-> message]

\* C1: a search whose current-weather fetch succeeded does not fail when its
\* forecast fetch fails (non-OK response or network error): it goes on with
\* an empty forecast and no error is shown.
C1_ForecastFailureTolerated ==
    [][\A s \in DOMAIN searches :
          \A arrival \in ForecastArrivals(searches[s].city) :
             (Failed(arrival) /\ ForecastArrives(s, arrival)) =>
                /\ searches'[s].pc # "failed"
                /\ searches'[s].forecast = <<>>
                /\ display'.current.kind # "error"
      ]_vars

\* C2: when the current-weather fetch of a search ends with 404, the search
\* fails in that very step (its pc, the one request it has in flight, goes
\* from "weather" to "failed", so no forecast, air-quality or alerts request
\* is issued for it), the server's "Could not find weather data for <city>"
\* message is shown, history and currentCity stay as they were, and a failed
\* search never moves again.
C2_NotFoundFailsSearch ==
    [][\A s \in DOMAIN searches :
          /\ \A arrival \in WeatherArrivals(searches[s].city) :
                (searches[s].pc = "weather" /\ searches'[s].pc # "weather"
                    /\ NotFound(arrival) /\ WeatherArrives(s, arrival)) =>
                   /\ searches'[s].pc = "failed"
                   /\ ErrorShown(display', Msg("Could not find weather data for ",
                                               searches[s].city))
                   /\ searchHistory' = searchHistory
                   /\ currentCity' = currentCity
          /\ searches[s].pc = "failed" => searches'[s] = searches[s]
      ]_vars

\* a search ended by a 404 of /api/weather: the page shows its error, and
\* neither the history nor currentCity has its city
C2_Witness ==
    \E s \in DOMAIN searches :
       /\ searches[s].pc = "failed"
       /\ ErrorShown(display, Msg("Could not find weather data for ",
                                  searches[s].city))
       /\ searchHistory = <<>>
       /\ currentCity = EmptyString

\* C3: once the current-weather and forecast fetches of a search succeeded,
\* the search cannot fail; a failed air-quality fetch leaves airQuality null
\* and shows no error; a failed alerts fetch shows the empty alert list next
\* to the other facets; and when the search returns its city is at the front
\* of the search history.
C3_AirQualityAndAlertsTolerated ==
    [][\A s \in DOMAIN searches :
          LET search == searches[s]
              step(pc) == search.pc = pc /\ searches'[s].pc # pc
          IN
          /\ search.pc \in {"hourly", "airQuality", "alerts", "config"} =>
                searches'[s].pc # "failed"
          /\ \A arrival \in AirQualityArrivals(search.city) :
                \/ ~(step("airQuality") /\ Failed(arrival))
                \/ /\ searches'[s].pc = "alerts"
                   /\ searches'[s].airQuality = Null
                   /\ display' = display
                \/ ~AirQualityArrives(s, arrival)
          /\ \A arrival \in AlertsArrivals(search.city) :
                \/ ~(step("alerts") /\ Failed(arrival))
                \/ /\ searches'[s].pc \in {"config", "done"}
                   /\ display'.alerts = displayAlerts([alerts |-> <<>>])
                   /\ display'.current = displayCurrentWeather(search.currentWeather)
                   /\ display'.forecast = displayForecast(search.forecast)
                   /\ display'.hourly = displayHourlyForecast(search.hourlyForecast)
                   /\ display'.airQuality = displayAirQuality(search.airQuality)
                \/ ~AlertsArrives(s, arrival)
          /\ (search.pc \in {"alerts", "config"} /\ searches'[s].pc = "done") =>
                /\ searchHistory'[1] = search.city
                /\ currentCity' = search.city
      ]_vars

\* a search returned although its air-quality fetch had failed: the
\* placeholder is shown next to the weather of its city, which is at the
\* front of the history
C3_Witness ==
    \E s \in DOMAIN searches :
       /\ searches[s].pc = "done"
       /\ display.airQuality = displayAirQuality(Null)
       /\ display.alerts = displayAlerts([alerts |-> <<>>])
       /\ display.current = displayCurrentWeather(WeatherOf(searches[s].city))
       /\ searchHistory[1] = searches[s].city
       /\ currentCity = searches[s].city

\* C4: with a configured server, once every search that was issued has
\* completed, the displayed weather, currentCity and the front of the search
\* history are those of the search issued last.
C4_LaterSearchWins ==
    (/\ health = "live"
     /\ Len(searches) >= 2
     /\ \A s \in DOMAIN searches : searches[s].pc = "done")
    => LET later == searches[Len(searches)] IN
       /\ display.current.kind = "weather"
       /\ display.current.name = later.city
       /\ currentCity = later.city
       /\ searchHistory[1] = later.city

\* C5: once the health probe has put the page into demo mode, no search
\* issues a live request.
C5_DemoModeIssuesNoLiveRequest ==
    [][health = "demo" => Len(searches') = Len(searches)]_vars

\* C9: a step that changes searchHistory is the completion of a search.
C9_HistoryChangedOnlyBySearch ==
    [][searchHistory' # searchHistory =>
          \E s \in DOMAIN searches :
             /\ searches[s].pc # "done"
             /\ searches'[s].pc = "done"
      ]_vars

----------------------------------------------------------------------------
(* Claims on the forecast reducer, continued                               *)

DayOf(item, zone) == toDateString(DateOf(item), zone)

\* the positions of the samples that are the first of their calendar day
FirstOfDay(list, zone) ==
    {i \in DOMAIN list :
        \A j \in 1 .. i - 1 : DayOf(list[j], zone) # DayOf(list[i], zone)}

\* the k-th smallest element of a set of numbers
Kth(set, k) == CHOOSE i \in set : Cardinality({j \in set : j < i}) = k - 1

Qualifying(list, clock) ==
    {i \in DOMAIN list :
        /\ DateOf(list[i]) > clock
        /\ DateOf(list[i]) <= clock + 24 * 60 * 60 * 1000}

\* C12: every entry of the hourly view has a time t with now < t <= now + 24h,
\* and the view has at most 24 entries.
C12_HourlyViewInWindow ==
    hourly # NullText =>
       /\ Len(hourly) <= 24
       /\ \A k \in DOMAIN hourly :
             /\ now < hourly[k].time
             /\ hourly[k].time <= now + 24 * 60 * 60 * 1000

\* a list with a sample at the clock itself and one exactly 24 hours later:
\* the first is left out, the second is the 24th entry
C12_Witness ==
    /\ hourly # NullText
    /\ Len(samples) >= 25
    /\ DateOf(samples[1]) = now
    /\ Len(hourly) = 24
    /\ hourly[24].time = now + 24 * 60 * 60 * 1000

\* C13: the hourly view is the first 24 (all, when there are fewer) of the
\* samples within (now, now + 24h], in input order: its k-th entry is the
\* entry of the k-th qualifying sample.
C13_HourlyViewIsPrefix ==
    hourly # NullText =>
       LET qualifying == Qualifying(samples, now) IN
       /\ Len(hourly) = Min(24, Cardinality(qualifying))
       /\ \A k \in DOMAIN hourly :
             hourly[k] = HourlyEntry(samples[Kth(qualifying, k)])

\* 26 samples qualify in a list in descending time order: the 24 first of
\* the input, which are the 24 latest, are returned
C13_Witness ==
    /\ hourly # NullText
    /\ Cardinality(Qualifying(samples, now)) = 26
    /\ DateOf(samples[1]) > DateOf(samples[2])
    /\ Len(hourly) = 24
    /\ hourly[1].time = DateOf(samples[1])

----------------------------------------------------------------------------
(* Claims on the Express proxy                                             *)

HasServed(routes) == exchange # Null /\ exchange.route \in routes

\* C14: with a configured key, /api/weather and /api/forecast answer 404
\* only when the upstream answered 404, and answer 500 for every other
\* upstream failure (another non-2xx status, or a fetch that threw).
C14_FailuresClassifiedByKind ==
    (HasServed({"weather", "forecast"}) /\ hasApiKey) =>
       LET up == exchange.up
           status == exchange.response.status
       IN  /\ status = 404 => (~up.threw /\ up.status = 404)
           /\ (up.threw \/ (~UpstreamOk(up) /\ up.status # 404)) => status = 500

\* the routes mounted behind checkApiKey
WeatherEndpoints ==
    {"weather", "forecast", "airQuality", "geocode", "suggestions", "alerts"}

\* C15: without an API key, every weather endpoint answers 500 with the
\* error 'API key not configured' and has made no upstream request, while
\* /api/health answers 200 and reports hasApiKey = false.
C15_NoKeyRefusesWeatherEndpoints ==
    (exchange # Null /\ ~hasApiKey) =>
       /\ exchange.route \in WeatherEndpoints =>
             /\ exchange.response.status = 500
             /\ exchange.response.body.error = "API key not configured"
             /\ exchange.calls = 0
       /\ exchange.route = "health" =>
             /\ exchange.response.status = 200
             /\ exchange.response.body.hasApiKey = FALSE

\* a key-less server refused an alerts request for which the geocoder and
\* the alerts resource would both have answered
C15_Witness ==
    /\ HasServed({"alerts"})
    /\ ~hasApiKey
    /\ UpstreamOk(exchange.geo)
    /\ exchange.geoData # <<>>
    /\ UpstreamOk(exchange.up)
    /\ exchange.calls = 0
    /\ exchange.response = ApiKeyNotConfigured

\* the geocoding call of the request served last was made and found the city
Geocoded == hasApiKey /\ UpstreamOk(exchange.geo) /\ exchange.geoData # <<>>

\* C16: when the geocoding of an alerts request succeeded and the One Call
\* request answers 401 or any other non-2xx status, or throws, the response
\* is 200 with an empty alerts array.
C16_AlertsDegradeToEmpty ==
    (/\ HasServed({"alerts"})
     /\ Geocoded
     /\ (exchange.up.threw \/ ~UpstreamOk(exchange.up)))
    => /\ exchange.response.status = 200
       /\ exchange.response.body.alerts = <<>>

\* the One Call request of a geocoded city was answered 401, the client got
\* 200 and no alerts
C16_Witness ==
    /\ HasServed({"alerts"})
    /\ Geocoded
    /\ exchange.up = Upstream(401)
    /\ exchange.calls = 2
    /\ exchange.response.status = 200
    /\ exchange.response.body.alerts = <<>>

\* C17: an alerts request is never a hard error: whatever the geocoding call
\* and the One Call request end with, the response is 200 and its body has
\* an alerts array.
C17_AlertsNeverHardError ==
    HasServed({"alerts"}) =>
       /\ exchange.response.status = 200
       /\ "alerts" \in DOMAIN exchange.response.body

\* the upstream request of the suggestions request served last failed
SuggestionsUpstreamFailed == exchange.up.threw \/ ~UpstreamOk(exchange.up)

\* C18: a suggestions request is answered 200 whether or not the server has
\* a key and whatever the upstream does; the body is the empty array when
\* the query has fewer than 2 characters (and then no upstream request is
\* made) or when the upstream request fails.
C18_SuggestionsAlwaysOk ==
    HasServed({"suggestions"}) =>
       /\ exchange.response.status = 200
       /\ Len(exchange.query) < 2 =>
             (exchange.response.body = <<>> /\ exchange.calls = 0)
       /\ SuggestionsUpstreamFailed => exchange.response.body = <<>>

-----------------------------------------------------------------------------
(* Claims on demo mode                                                     *)

\* the calendar days of the cards of a daily view
CardDays(cards, zone) == {toDateString(cards[i].date, zone) : i \in DOMAIN cards}

-----------------------------------------------------------------------------
(* Claims on the air-quality label                                         *)

\* the label of each ordinal
AqiLabels == <<"Good", "Fair", "Moderate", "Poor", "Very Poor">>

\* C20: the label shown for a reading is decided by its ordinal alone: 1..5
\* give Good, Fair, Moderate, Poor, Very Poor and every other integer gives
\* "Unknown" in the neutral colour, whatever the concentrations are.
C20_AqiLabelTotal ==
    display.airQuality.kind = "aq" =>
       LET shown == display.airQuality
       IN  IF shown.aqi \in 1 .. 5
           THEN shown.label = AqiLabels[shown.aqi]
           ELSE shown.label = "Unknown" /\ shown.color = "#9E9E9E"

\* a reading of ordinal 6 with clean air is shown as Unknown
C20_Witness ==
    /\ display.airQuality.kind = "aq"
    /\ display.airQuality.aqi = 6
    /\ display.airQuality.components.pm2_5 = 0
    /\ display.airQuality.label = "Unknown"
    /\ display.airQuality.color = "#9E9E9E"

-----------------------------------------------------------------------------
(* Claims on the map tiles                                                 *)

C29_TileColumnValid ==
    (tile # Null /\ tile.calls >= 1) =>
       (0 <= tile.x /\ tile.x <= Pow2(tile.zoom) - 1)

-----------------------------------------------------------------------------
(* Claims on searchWeather, continued                                      *)

\* C22: for one search the geocoder is asked at most once, and not at all
\* when the current-weather result of the search carries coordinates.
C22_GeocodedAtMostOnce ==
    \A s \in DOMAIN searches :
       /\ searches[s].geocodings <= 1
       /\ (/\ searches[s].currentWeather # Null
           /\ "coord" \in DOMAIN searches[s].currentWeather)
          => searches[s].geocodings = 0

\* the call is suspended at an await
InFlight(search) == search.pc \notin {"done", "failed"}

\* C23: the forecast, air-quality and alerts fetches of a search are issued
\* together: while the call waits for the response of one of them, all three
\* have been issued.
C23_FacetsLaunchedTogether ==
    \A s \in DOMAIN searches :
       (/\ InFlight(searches[s])
        /\ searches[s].pc \in {"forecast", "airQuality", "alerts"})
       => {"forecast", "airQuality", "alerts"} \subseteq Issued(searches[s].pc)

\* C24: the daily and the hourly view of a search are reductions of one
\* forecast response: once the call holds both, some upstream forecast gives
\* the one and the other (so neither is missing while the other is there).
C24_ViewsOfOneForecast ==
    \A s \in DOMAIN searches :
       searches[s].pc \in {"airQuality", "alerts"} =>
          \E body \in ForecastBodies :
             /\ searches[s].forecast = processForecastData(body.list, tz)
             /\ searches[s].hourlyForecast = processHourlyData(body.list, now)

\* the containers of the five facets
Facets == {"current", "forecast", "hourly", "airQuality", "alerts"}

\* C25: a search displays its facets only once all its fetches have settled:
\* a step of a call that still waits for the current weather, the forecast,
\* the hourly forecast or the air quality changes no container, or fails and
\* writes the error text; the step in which the alerts fetch ends displays
\* the five results the call then holds.
C25_ComposedAfterAllSettled ==
    [][\A s \in DOMAIN searches :
          LET search == searches[s] IN
          /\ (/\ search.pc \in {"weather", "forecast", "hourly", "airQuality"}
              /\ searches'[s] # search)
             => \A slot \in Facets :
                   \/ display'[slot] = display[slot]
                   \/ /\ searches'[s].pc = "failed"
                      /\ display'[slot].kind = "error"
          /\ (search.pc = "alerts" /\ searches'[s] # search)
             => /\ Issued(search.pc) \ {"config"} =
                      {"weather", "forecast", "hourly", "airQuality", "alerts"}
                /\ display'.current = displayCurrentWeather(search.currentWeather)
                /\ display'.forecast = displayForecast(search.forecast)
                /\ display'.hourly = displayHourlyForecast(search.hourlyForecast)
                /\ display'.airQuality = displayAirQuality(search.airQuality)
                /\ display'.alerts.kind \in {"placeholder", "alerts"}
      ]_vars

\* the alerts fetch is the one fetch a call still waits for, it holds its
\* four other results, and the page still shows the loading text
C25_Witness ==
    \E s \in DOMAIN searches :
       /\ searches[s].pc = "alerts"
       /\ searches[s].forecast # <<>>
       /\ searches[s].hourlyForecast # <<>>
       /\ searches[s].airQuality # Null
       /\ display.current.kind = "loading"
       /\ display.hourly = Initial

C27_FallbackNeverReplacesLive ==
    [][(/\ health = "pending"
        /\ health' # "pending"
        /\ display.current.kind = "weather"
        /\ \E s \in DOMAIN searches : searches[s].pc = "done")
       => /\ display' = display
          /\ searchHistory' = searchHistory
      ]_vars

-----------------------------------------------------------------------------
(* Claims on the search history, continued                                 *)

=============================================================================
